---- MODULE Spec2Model ----
(***************************************************************************)
(* A model of coopfuture.hpp: the cooperative Scheduler (task queue, ready *)
(* queue, resolution loop on freshly allocated coroutine stacks) and the   *)
(* one-shot Future (UNRESOLVED / SUCCESS / FAILURE / UNEXPECTED).          *)
(*                                                                         *)
(* One thread of control exists.  `cur` says which context holds it: the   *)
(* main program, a resolution loop running on a coroutine stack, or a      *)
(* context that a loop has just jumped to.  A user program is modelled as  *)
(* a main routine that spawns tasks, completes externally held Futures,    *)
(* awaits Futures and finally returns, and by task callables of a few      *)
(* kinds (TaskKinds).                                                      *)
(***************************************************************************)
EXTENDS Integers, Sequences, FiniteSets, TLC

\* ------------------------------------------------------------------ bounds
MaxTasks     == 3   \* spawn calls over a run
NManual      == 1   \* Futures constructed directly by the program (externally held)
MaxVal       == 2   \* payloads (values and errors) are 1..MaxVal
MaxCallbacks == 3   \* invocations of the progress step over a run

MaxFut   == NManual + MaxTasks        \* Futures 1..NManual are manual, NManual+k is task k's
MaxCells == MaxFut + MaxTasks         \* waiter nodes / coroutine stacks over a run
Vals     == 1..MaxVal
Manual   == 1..NManual
TaskIds  == 1..MaxTasks
FutIds   == 1..MaxFut
CellIds  == 1..MaxCells

FutOf(k) == NManual + k

\* what a task's callable does (the Func given to spawn)
TaskKinds == {"ret", "unit", "throwE", "throwX", "throwAF", "await", "set", "spawn"}
\* callables returning void: spawn picks the Future<void, E> overload for them
VoidKinds == {"unit", "set", "spawn"}

VARIABLES
  fut,      \* FutureBase: state and the Contents union (member last written, its value)
  cell,     \* FContextCons nodes, each with the waitUntilReady frame that owns it
  ready,    \* Scheduler::ready   : deque of suspended contexts (a context = its node)
  tasks,    \* Scheduler::tasks   : deque of task closures (task ids)
  task,     \* the closures pushed by spawn: callable kind, argument, times run
  stack,    \* coroutine stacks handed out by stackAllocate
  ntask,    \* tasks spawned so far
  ncell,    \* nodes / stacks created so far
  cur,      \* the running context
  proc,     \* "up", or how the process ended: "exited" (main returned),
            \* "fatal_diag" (the loop's diagnostic, then std::terminate), "terminate"
            \* (std::terminate without it), "unexpected" (std::unexpected() called by
            \* await), "crashed" (a released stack was used)
  cb,       \* progress-step invocations so far
  ev,       \* the operation performed by the last step and its outcome
  calls     \* the completion calls (set*) made during the last step

vars == <<fut, cell, ready, tasks, task, stack, ntask, ncell, cur, proc, cb, ev, calls>>

NoFut  == [state |-> "NONE", member |-> "cons", val |-> 0, void |-> FALSE]
\* FutureBase(Scheduler&): state(UNRESOLVED); Contents() : cons(nullptr)
FutureBase(isVoid) == [state |-> "UNRESOLVED", member |-> "cons", val |-> 0, void |-> isVoid]

NoCell == [owner |-> 0, fut |-> 0, home |-> 0, sc |-> 0, next |-> 0, enq |-> 0, res |-> 0,
           seen |-> <<>>]
NoTask == [kind |-> "none", a |-> 0, runs |-> 0, st |-> "none", by |-> 0]
NoEv   == [op |-> "init", who |-> 0, f |-> 0, w |-> 0, out |-> [k |-> "none", v |-> 0]]

\* The data the operations work on, threaded through one step.
\*   exc/excv : the exception in flight ("none" when there is none)
\*   log      : the completion calls made so far in this step
\*   ub       : a node on a released stack was read
\*   alt      : the data as they were at the first violated exception
\*              specification of this step, in case the build enforces them
St == [fut |-> fut, cell |-> cell, ready |-> ready, tasks |-> tasks, task |-> task,
       stack |-> stack, ntask |-> ntask, ncell |-> ncell,
       exc |-> "none", excv |-> 0, log |-> <<>>, ub |-> FALSE, alt |-> <<>>]

Commit(W) ==
  /\ fut' = W.fut /\ cell' = W.cell /\ ready' = W.ready /\ tasks' = W.tasks
  /\ task' = W.task /\ stack' = W.stack /\ ntask' = W.ntask /\ ncell' = W.ncell
  /\ calls' = W.log

Exists(f) == fut[f].state # "NONE"

\* ----------------------------------------------------------------- Future
RECURSIVE Walk(_, _)
\* the contexts met walking a waiter list from `cons` along nextPointer
Walk(C, cons) == IF cons = 0 THEN <<>> ELSE <<cons>> \o Walk(C, C[cons].next)

\* a node lives in the frame of the await call that made it: on the main stack
\* (home 0, never released) or on a coroutine stack
Dangling(W, w) == W.cell[w].home # 0 /\ W.stack[W.cell[w].home].mem = "released"

\* the elements of a sequence, last first
Reverse(q) == [i \in 1..Len(q) |-> q[Len(q) + 1 - i]]

\* notifyReady pushing the contexts in the reverse of the list order
notifyReady_reversed(W, cons) ==
  LET woke == Reverse(Walk(W.cell, cons)) IN
  [W EXCEPT !.ready = W.ready \o woke,
            !.cell  = [w \in CellIds |->
                         IF \E i \in 1..Len(woke) : woke[i] = w
                         THEN [W.cell[w] EXCEPT !.enq = @ + 1] ELSE W.cell[w]],
            !.ub    = W.ub \/ \E i \in 1..Len(woke) : Dangling(W, woke[i])]

\* notifyReady pushing the context of the head node only
notifyReady_headOnly(W, cons) ==
  [W EXCEPT !.ready = Append(W.ready, cons),
            !.cell[cons].enq = @ + 1,
            !.ub = W.ub \/ Dangling(W, cons)]

\* Scheduler::notifyReady: push every node's context on `ready`, in list order
notifyReady(W, cons) ==
  LET woke == Walk(W.cell, cons) IN
  [W EXCEPT !.ready = W.ready \o woke,
            !.cell  = [w \in CellIds |->
                         IF \E i \in 1..Len(woke) : woke[i] = w
                         THEN [W.cell[w] EXCEPT !.enq = @ + 1] ELSE W.cell[w]],
            !.ub    = W.ub \/ \E i \in 1..Len(woke) : Dangling(W, woke[i])]

\* `throw new FutureAlreadyFulfilled` throws a FutureAlreadyFulfilled*; complete()
\* is declared throw (FutureAlreadyFulfilled), so a build that enforces dynamic
\* exception specifications calls std::unexpected() there, which terminates the
\* process as it is (kept in W.alt); a build that does not enforce them lets the
\* pointer propagate.  Which of the two happens is left open at each violation.
Throw(W, entry) ==
  LET W1 == [W EXCEPT !.exc = "AFptr", !.log = Append(W.log, entry)] IN
  IF W.alt = <<>>
  THEN [W1 EXCEPT !.alt = <<[fut |-> W1.fut, cell |-> W1.cell, ready |-> W1.ready,
                             tasks |-> W1.tasks, task |-> W1.task, stack |-> W1.stack,
                             ntask |-> W1.ntask, ncell |-> W1.ncell, log |-> W1.log]>>]
  ELSE W1

\* complete() without its test of the state
complete_nocheck(W, f) ==
  LET entry == [op |-> "complete", f |-> f, pre |-> W.fut[f].state, out |-> "ok",
                woke |-> <<>>, atNotify |-> "-"]
  IN IF W.fut[f].member = "cons" /\ W.fut[f].val # 0
     THEN [notifyReady(W, W.fut[f].val) EXCEPT !.log = Append(W.log, entry)]
     ELSE [W EXCEPT !.log = Append(W.log, entry)]

\* complete() that does not release the waiting contexts
complete_nonotify(W, f) ==
  IF W.fut[f].state # "UNRESOLVED"
  THEN Throw(W, [op |-> "complete", f |-> f, pre |-> W.fut[f].state,
                 out |-> "AlreadyFulfilled", woke |-> <<>>, atNotify |-> "-"])
  ELSE [W EXCEPT !.log = Append(W.log, [op |-> "complete", f |-> f, pre |-> W.fut[f].state,
                                   out |-> "ok", woke |-> <<>>, atNotify |-> "-"])]

\* FutureBase::complete. Appends the call to the log: the state it found, and
\* the state the Future had when notifyReady was called ("-" when it was not)
complete(W, f) ==
  IF W.fut[f].state # "UNRESOLVED"
  THEN Throw(W, [op |-> "complete", f |-> f, pre |-> W.fut[f].state,
                 out |-> "AlreadyFulfilled", woke |-> <<>>, atNotify |-> "-"])
  ELSE IF W.fut[f].val # 0
       THEN [notifyReady(W, W.fut[f].val)
               EXCEPT !.log = Append(W.log, [op |-> "complete", f |-> f, pre |-> W.fut[f].state,
                                        out |-> "ok", woke |-> Walk(W.cell, W.fut[f].val),
                                        atNotify |-> W.fut[f].state])]
       ELSE [W EXCEPT !.log = Append(W.log, [op |-> "complete", f |-> f, pre |-> W.fut[f].state,
                                        out |-> "ok", woke |-> <<>>, atNotify |-> "-"])]

\* names the public operation the last logged complete() call belongs to
Tag(W, op) ==
  LET W1 == [W EXCEPT !.log[Len(W.log)].op = op] IN
  IF W1.alt # <<>> /\ Len(W1.alt[1].log) = Len(W1.log)
  THEN [W1 EXCEPT !.alt[1].log[Len(W1.log)].op = op] ELSE W1

\* setResult that installs state and payload first and releases the waiters,
\* from the list head it saved, last
setResult_notifyLast(W, f, newResult) ==
  IF W.fut[f].state # "UNRESOLVED" THEN Tag(complete(W, f), "setResult")
  ELSE LET head == W.fut[f].val
           W1   == [W EXCEPT !.fut[f].state = "SUCCESS", !.fut[f].member = "result",
                             !.fut[f].val = newResult]
           W2   == IF head # 0 THEN notifyReady(W1, head) ELSE W1
       IN [W2 EXCEPT !.log = Append(W.log, [op |-> "setResult", f |-> f, pre |-> "UNRESOLVED",
                                       out |-> "ok", woke |-> Walk(W.cell, head),
                                       atNotify |-> IF head # 0 THEN W1.fut[f].state ELSE "-"])]

\* Future<V,E>::setResult(newResult)
setResult(W, f, newResult) ==
  LET W1 == Tag(complete(W, f), "setResult") IN
  IF W1.exc # "none" THEN W1
  ELSE [W1 EXCEPT !.fut[f].state = "SUCCESS", !.fut[f].member = "result",
                  !.fut[f].val = newResult]

\* Future<void,E>::setResult(): no payload, the union is left as it was
setResultVoid(W, f) ==
  LET W1 == Tag(complete(W, f), "setResult") IN
  IF W1.exc # "none" THEN W1
  ELSE [W1 EXCEPT !.fut[f].state = "SUCCESS"]

\* setError storing the error before complete() has tested the state
setError_early(W, f, newError) ==
  LET W1 == Tag(complete(W, f), "setError") IN
  IF W1.exc # "none"
  THEN [W1 EXCEPT !.fut[f].member = "error", !.fut[f].val = newError]
  ELSE [W1 EXCEPT !.fut[f].state = "FAILURE", !.fut[f].member = "error",
                  !.fut[f].val = newError]

\* FutureBase::setError(newError)
setError(W, f, newError) ==
  LET W1 == Tag(complete(W, f), "setError") IN
  IF W1.exc # "none" THEN W1
  ELSE [W1 EXCEPT !.fut[f].state = "FAILURE", !.fut[f].member = "error",
                  !.fut[f].val = newError]

\* setUnexpected that releases the waiters but does not set the state
setUnexpected_noState(W, f) == Tag(complete(W, f), "setUnexpected")

\* FutureBase::setUnexpected(): no payload, the union is left as it was
setUnexpected(W, f) ==
  LET W1 == Tag(complete(W, f), "setUnexpected") IN
  IF W1.exc # "none" THEN W1
  ELSE [W1 EXCEPT !.fut[f].state = "UNEXPECTED"]

\* await whose UNEXPECTED case lacks std::unexpected() and falls through into
\* the UNRESOLVED case
await_fallthrough(W, f) ==
  CASE W.fut[f].state = "SUCCESS"    ->
         IF W.fut[f].void THEN [k |-> "unit", v |-> 0] ELSE [k |-> "value", v |-> W.fut[f].val]
    [] W.fut[f].state = "FAILURE"    -> [k |-> "throw", v |-> W.fut[f].val]
    [] OTHER                         -> [k |-> "suspend", v |-> 0]

\* await whose FAILURE case returns the payload instead of throwing it
await_errorAsValue(W, f) ==
  CASE W.fut[f].state = "SUCCESS"    ->
         IF W.fut[f].void THEN [k |-> "unit", v |-> 0] ELSE [k |-> "value", v |-> W.fut[f].val]
    [] W.fut[f].state = "FAILURE"    -> [k |-> "value", v |-> W.fut[f].val]
    [] W.fut[f].state = "UNEXPECTED" -> [k |-> "unexpected", v |-> 0]
    [] OTHER                         -> [k |-> "suspend", v |-> 0]

\* The switch of Future::await on the state: what the call does at once.
\* "suspend" stands for the UNRESOLVED case, carried out by Suspend below.
await(W, f) ==
  CASE W.fut[f].state = "SUCCESS"    ->
         IF W.fut[f].void THEN [k |-> "unit", v |-> 0] ELSE [k |-> "value", v |-> W.fut[f].val]
    [] W.fut[f].state = "FAILURE"    -> [k |-> "throw", v |-> W.fut[f].val]
    [] W.fut[f].state = "UNEXPECTED" -> [k |-> "unexpected", v |-> 0]
    [] OTHER                         -> [k |-> "suspend", v |-> 0]

\* Scheduler::waitUntilReady up to the jump: a fresh stack for a new resolution loop
waitUntilReady(W, sc) == [W EXCEPT !.stack[sc] = [mem |-> "allocated", rel |-> 0]]

\* waitUntilReady returning without stackDeallocate
waitUntilReadyReturn_leak(W, w) == W

\* Scheduler::waitUntilReady after the jump returned: stackDeallocate(sc)
waitUntilReadyReturn(W, w) ==
  [W EXCEPT !.stack[W.cell[w].sc] = [mem |-> "released", rel |-> @.rel + 1]]

\* The UNRESOLVED case of await made by `owner` (0 = main, k = task k) whose frame
\* is on stack `home`: a node on the caller's frame, prepended to the waiter list,
\* then waitUntilReady
Suspend(W, owner, home, f) ==
  LET w  == W.ncell + 1
      W1 == [W EXCEPT !.ncell = w,
                      !.cell[w] = [NoCell EXCEPT !.owner = owner, !.fut = f, !.home = home,
                                                 !.sc = w, !.next = W.fut[f].val],
                      !.fut[f].val = w]
  IN waitUntilReady(W1, w)

\* -------------------------------------------------------------- Scheduler
\* spawn pushing the closure at the front of `tasks`
spawn_front(W, kind, a, by) ==
  LET k == W.ntask + 1 IN
  [W EXCEPT !.ntask = k,
            !.fut[FutOf(k)] = FutureBase(kind \in VoidKinds),
            !.task[k] = [kind |-> kind, a |-> a, runs |-> 0, st |-> "queued", by |-> by],
            !.tasks = <<k>> \o W.tasks]

\* spawn pushing its closure twice
spawn_twice(W, kind, a, by) ==
  LET k == W.ntask + 1 IN
  [W EXCEPT !.ntask = k,
            !.fut[FutOf(k)] = FutureBase(kind \in VoidKinds),
            !.task[k] = [kind |-> kind, a |-> a, runs |-> 0, st |-> "queued", by |-> by],
            !.tasks = W.tasks \o <<k, k>>]

\* Scheduler::spawn (both overloads): a new Future, and its closure at the back
\* of `tasks`.  `by` is the spawning context (0 = main, k = task k).
spawn(W, kind, a, by) ==
  LET k == W.ntask + 1 IN
  [W EXCEPT !.ntask = k,
            !.fut[FutOf(k)] = FutureBase(kind \in VoidKinds),
            !.task[k] = [kind |-> kind, a |-> a, runs |-> 0, st |-> "queued", by |-> by],
            !.tasks = Append(W.tasks, k)]

\* What `await` hands to the callable of an "await" task, which returns the
\* awaited value plus one (a void Future counts as 0)
AwaitInTask(W, o) ==
  CASE o.k = "value"      -> [W |-> W, o |-> [k |-> "value", v |-> o.v + 1]]
    [] o.k = "unit"       -> [W |-> W, o |-> [k |-> "value", v |-> 1]]
    [] o.k = "throw"      -> [W |-> [W EXCEPT !.exc = "E", !.excv = o.v], o |-> o]
    [] o.k = "unexpected" -> [W |-> [W EXCEPT !.exc = "unexpected"], o |-> o]
    [] OTHER              -> [W |-> W, o |-> o]

\* call(): the callable of task k, run up to its return, its throw or its
\* suspension.  The exception it raises, if any, is left in W.exc.
Call(W, k) ==
  LET t == W.task[k] IN
  CASE t.kind = "ret"     -> [W |-> W, o |-> [k |-> "value", v |-> t.a]]
    [] t.kind = "unit"    -> [W |-> W, o |-> [k |-> "unit", v |-> 0]]
    [] t.kind = "throwE"  -> [W |-> [W EXCEPT !.exc = "E", !.excv = t.a], o |-> [k |-> "throw", v |-> t.a]]
    [] t.kind = "throwX"  -> [W |-> [W EXCEPT !.exc = "X"], o |-> [k |-> "throw", v |-> 0]]
    [] t.kind = "throwAF" -> [W |-> [W EXCEPT !.exc = "AF"], o |-> [k |-> "throw", v |-> 0]]
    [] t.kind = "set"     -> [W |-> setResult(W, t.a, 1), o |-> [k |-> "unit", v |-> 0]]
    [] t.kind = "spawn"   -> [W |-> spawn(W, "ret", 1, k), o |-> [k |-> "unit", v |-> 0]]
    [] OTHER              -> AwaitInTask(W, await(W, t.a))

\* the closure without its catch (E) handler: E falls to catch (...)
closure_noCatchE(W, k, o) ==
  LET f  == FutOf(k)
      W1 == IF W.exc # "none" THEN W
            ELSE IF o.k = "value" THEN setResult(W, f, o.v) ELSE setResultVoid(W, f)
  IN CASE W1.exc = "none"                 -> W1
       [] W1.exc = "AF"                   -> W1
       [] W1.exc \in {"E", "X", "AFptr"}  -> setUnexpected([W1 EXCEPT !.exc = "none"], f)
       [] OTHER                           -> W1

\* The closure pushed by spawn, from the return of call() on: setResult with the
\* value, or the handlers  catch (FutureAlreadyFulfilled) { throw }  /
\* catch (E) { setError }  /  catch (...) { setUnexpected }.
\* An exception still in W.exc afterwards leaves the closure.
closure(W, k, o) ==
  LET f  == FutOf(k)
      W1 == IF W.exc # "none" THEN W
            ELSE IF o.k = "value" THEN setResult(W, f, o.v) ELSE setResultVoid(W, f)
  IN CASE W1.exc = "none"            -> W1
       [] W1.exc = "AF"              -> W1
       [] W1.exc = "E"               -> setError([W1 EXCEPT !.exc = "none"], f, W1.excv)
       [] W1.exc \in {"X", "AFptr"}  -> setUnexpected([W1 EXCEPT !.exc = "none"], f)
       [] OTHER                      -> W1

Done(W, k) == [W EXCEPT !.task[k].st = "done"]

\* how the process goes on after an exception reached Scheduler::loop (noexcept):
\* catch (FutureAlreadyFulfilled) prints the diagnostic and terminates, anything
\* else leaves a noexcept function
LoopFate(exc) ==
  CASE exc = "none"       -> "up"
    [] exc = "AF"         -> "fatal_diag"
    [] exc = "unexpected" -> "unexpected"
    [] OTHER              -> "terminate"

\* how the process goes on after an exception reached main, which catches
\* std::exception by value (test1.cpp): the error of a failed Future is caught,
\* a FutureAlreadyFulfilled* is not and terminates the program
MainFate(exc) ==
  CASE exc \in {"none", "E"} -> "up"
    [] exc = "unexpected"     -> "unexpected"
    [] OTHER                  -> "terminate"

Main     == [t |-> "main", s |-> 0, w |-> 0]
Loop(s)  == [t |-> "loop", s |-> s, w |-> 0]
Jump(s, w) == [t |-> "resume", s |-> s, w |-> w]

\* The end of a step that leaves the data W, the running context c and the
\* process p.  A step that read a node on a released stack may crash instead;
\* a step that violated an exception specification may have stopped there.
Finish(W, c, p, e) ==
  \/ /\ Commit(W)
     /\ cur' = c
     /\ ev' = e
     /\ \/ proc' = p
        \/ W.ub /\ proc' = "crashed"
  \/ /\ W.alt # <<>>
     /\ Commit(W.alt[1])
     /\ cur' = cur
     /\ ev' = [e EXCEPT !.out.k = "AlreadyFulfilled"]
     /\ proc' = "terminate"

\* ------------------------------------------------------------------ steps
Init ==
  /\ fut = [f \in FutIds |-> IF f \in Manual THEN FutureBase(FALSE) ELSE NoFut]
  /\ cell = [w \in CellIds |-> NoCell]
  /\ ready = <<>>
  /\ tasks = <<>>
  /\ task = [k \in TaskIds |-> NoTask]
  /\ stack = [s \in CellIds |-> [mem |-> "none", rel |-> 0]]
  /\ ntask = 0
  /\ ncell = 0
  /\ cur = Main
  /\ proc = "up"
  /\ cb = 0
  /\ ev = NoEv
  /\ calls = <<>>

Ev(op, who, f, w, o) == [op |-> op, who |-> who, f |-> f, w |-> w, out |-> o]
NoOut == [k |-> "none", v |-> 0]

\* spawns the program may still make, counting the one each queued "spawn" task will make
Reserved == ntask + Cardinality({k \in TaskIds : task[k].kind = "spawn" /\ task[k].runs = 0})

\* the arguments a callable of a kind takes
Args(kind) ==
  CASE kind = "ret"               -> Vals
    [] kind = "throwE"            -> {1}
    [] kind = "await"             -> {f \in FutIds : Exists(f)}
    [] kind = "set"               -> Manual
    [] OTHER                      -> {0}

\* main: sched.spawn(call)
MainSpawn ==
  /\ proc = "up" /\ cur.t = "main"
  /\ \E kind \in TaskKinds : \E a \in Args(kind) :
       /\ Reserved + (IF kind = "spawn" THEN 2 ELSE 1) <= MaxTasks
       /\ Finish(spawn(St, kind, a, 0), cur, "up", Ev("spawn", 0, FutOf(ntask + 1), 0, NoOut))
  /\ UNCHANGED cb

\* a completion call on an externally held Future
SetOps == {"setResult", "setError", "setUnexpected"}
DoSet(W, f, op, v) ==
  CASE op = "setResult" -> setResult(W, f, v)
    [] op = "setError"  -> setError(W, f, v)
    [] OTHER            -> setUnexpected(W, f)

SetArgs(op) == IF op = "setUnexpected" THEN {0} ELSE Vals
\* the outcome of a completion call made with argument v
SetOut(W, v) == [k |-> IF W.exc = "none" THEN "ok" ELSE "AlreadyFulfilled", v |-> v]

\* main: f.setResult(v) / f.setError(e) / f.setUnexpected()
MainSet ==
  /\ proc = "up" /\ cur.t = "main"
  /\ \E f \in Manual : \E op \in SetOps : \E v \in SetArgs(op) :
       LET W == DoSet(St, f, op, v) IN
       Finish(W, cur, MainFate(W.exc), Ev(op, 0, f, 0, SetOut(W, v)))
  /\ UNCHANGED cb

\* main: f.await()
MainAwait ==
  /\ proc = "up" /\ cur.t = "main"
  /\ \E f \in FutIds :
       /\ Exists(f)
       /\ LET o == await(St, f) IN
          IF o.k = "suspend"
          THEN Finish(Suspend(St, 0, 0, f), Loop(ncell + 1), "up", Ev("await", 0, f, ncell + 1, o))
          ELSE Finish(St, cur, IF o.k = "unexpected" THEN "unexpected" ELSE "up",
                      Ev("await", 0, f, 0, o))
  /\ UNCHANGED cb

\* main returns
MainExit ==
  /\ proc = "up" /\ cur.t = "main"
  /\ Finish(St, cur, "exited", Ev("exit", 0, 0, 0, NoOut))
  /\ UNCHANGED cb

\* the loop running the front task without pop_front()
PopTask_keep(W) == W

\* Scheduler::loop, ready empty and tasks not: task = tasks.front(); pop_front()
PopTask(W) == [W EXCEPT !.tasks = Tail(W.tasks)]

\* the loop running a task whenever there is one, without testing `ready`
LoopRunTask_readyIgnored ==
  /\ proc = "up" /\ cur.t = "loop"
  /\ Len(tasks) > 0
  /\ LET k  == Head(tasks)
         W0 == [PopTask(St) EXCEPT !.task[k].runs = @ + 1, !.task[k].st = "running"]
         r  == Call(W0, k)
     IN IF r.W.exc = "none" /\ r.o.k = "suspend"
        THEN Finish([Suspend(r.W, k, cur.s, W0.task[k].a) EXCEPT !.task[k].st = "suspended"],
                    Loop(ncell + 1), "up", Ev("task", k, FutOf(k), ncell + 1, r.o))
        ELSE LET W == Done(closure(r.W, k, r.o), k) IN
             Finish([W EXCEPT !.exc = "none"], cur, LoopFate(W.exc),
                    Ev("task", k, FutOf(k), 0, [k |-> W.exc, v |-> 0]))
  /\ UNCHANGED cb

\* Scheduler::loop, the branch that runs a task: the task is popped and run on
\* the loop's stack, until it returns to the loop or suspends in an await
LoopRunTask ==
  /\ proc = "up" /\ cur.t = "loop"
  /\ Len(ready) = 0 /\ Len(tasks) > 0
  /\ LET k  == Head(tasks)
         W0 == [PopTask(St) EXCEPT !.task[k].runs = @ + 1, !.task[k].st = "running"]
         r  == Call(W0, k)
     IN IF r.W.exc = "none" /\ r.o.k = "suspend"
        THEN Finish([Suspend(r.W, k, cur.s, W0.task[k].a) EXCEPT !.task[k].st = "suspended"],
                    Loop(ncell + 1), "up", Ev("task", k, FutOf(k), ncell + 1, r.o))
        ELSE LET W == Done(closure(r.W, k, r.o), k) IN
             Finish([W EXCEPT !.exc = "none"], cur, LoopFate(W.exc),
                    Ev("task", k, FutOf(k), 0, [k |-> W.exc, v |-> 0]))
  /\ UNCHANGED cb

\* Scheduler::loop, the branch that calls innerCallback(): the progress step
\* either does nothing or completes an externally held Future with setResult(1)
LoopCallback ==
  /\ proc = "up" /\ cur.t = "loop"
  /\ Len(ready) = 0 /\ Len(tasks) = 0
  /\ cb < MaxCallbacks
  /\ cb' = cb + 1
  /\ \/ Finish(St, cur, "up", Ev("callback", 0, 0, 0, NoOut))
     \/ \E f \in Manual :
          LET W == setResult(St, f, 1) IN
          Finish([W EXCEPT !.exc = "none"], cur, LoopFate(W.exc), Ev("callback", 0, f, 0, SetOut(W, 1)))

\* the loop taking ready.front() but removing the context at the back
PopReady_back(W) == [W EXCEPT !.ready = SubSeq(W.ready, 1, Len(W.ready) - 1)]

\* Scheduler::loop after the while: exitContext = ready.front(); pop_front()
PopReady(W) == [W EXCEPT !.ready = Tail(W.ready)]

\* Scheduler::loop after the while: jump to the front context of `ready`
LoopExit ==
  /\ proc = "up" /\ cur.t = "loop"
  /\ Len(ready) > 0
  /\ Finish(PopReady(St), Jump(cur.s, Head(ready)), "up", Ev("jump", 0, 0, Head(ready), NoOut))
  /\ UNCHANGED cb

\* what the re-dispatched await sees: state and payload of the Future
Seen(W, f) == <<W.fut[f].state, IF W.fut[f].member = "cons" THEN 0 ELSE W.fut[f].val>>

\* A context resumed by a jump: waitUntilReady returns (stackDeallocate), await
\* re-dispatches, and the awaiter runs on: main to its next operation, a task to
\* the end of its closure and back into the loop that ran it
Resume ==
  /\ proc = "up" /\ cur.t = "resume"
  /\ LET w  == cur.w
         k  == cell[w].owner
         f  == cell[w].fut
         W0 == waitUntilReadyReturn(St, w)
         W1 == [W0 EXCEPT !.cell[w].res = @ + 1, !.cell[w].seen = Seen(W0, f)]
         o  == await(W1, f)
     IN IF o.k = "suspend"
        THEN Finish(Suspend(W1, k, cell[w].home, f), Loop(ncell + 1), "up",
                    Ev("resume", k, f, w, o))
        ELSE IF k = 0
        THEN Finish(W1, Main, IF o.k = "unexpected" THEN "unexpected" ELSE "up",
                    Ev("resume", 0, f, w, o))
        ELSE LET r == AwaitInTask(W1, o)
                 W == Done(closure(r.W, k, r.o), k)
             IN Finish([W EXCEPT !.exc = "none"], Loop(cell[w].home), LoopFate(W.exc),
                       Ev("resume", k, f, w, o))
  /\ UNCHANGED cb

\* the running context's frames are on a stack that was handed back to the
\* allocator: what it reads there is indeterminate, and the process may crash
OnReleased ==
  \/ cur.t = "loop" /\ stack[cur.s].mem = "released"
  \/ cur.t = "resume" /\ Dangling(St, cur.w)

Crash ==
  /\ proc = "up" /\ OnReleased
  /\ proc' = "crashed"
  /\ ev' = Ev("crash", 0, 0, 0, NoOut)
  /\ calls' = <<>>
  /\ UNCHANGED <<fut, cell, ready, tasks, task, stack, ntask, ncell, cur, cb>>

Next ==
  \/ MainSpawn
  \/ MainSet
  \/ MainAwait
  \/ MainExit
  \/ LoopRunTask
  \/ LoopCallback
  \/ LoopExit
  \/ Resume
  \/ Crash

Spec == Init /\ [][Next]_vars

\* ----------------------------------------------------------------- claims
Terminal == {"SUCCESS", "FAILURE", "UNEXPECTED"}
\* the completion calls of the last step made on Future f
CallsOn(c, f) == {i \in 1..Len(c) : c[i].f = f}

TaskOf(f) == f - NManual
Spawned(k) == k \in TaskIds /\ k <= ntask
\* nodes made so far, and those whose await has not been resumed yet
Cells == {w \in CellIds : w <= ncell}
Waiting(w) == w \in Cells /\ cell[w].res = 0
\* a callable that returns without raising, awaiting or completing anything
Returns(k) == Spawned(k) /\ task[k].kind \in {"ret", "unit"}
\* the last step was an await (made at once or ended by a resumption) on f by `who`
Awaited(who, f) ==
  /\ ev.op \in {"await", "resume"} /\ ev.who = who /\ ev.f = f
  /\ ev.out.k # "suspend"

\* C3: a spawned task t that returns v is run once the scheduler is driven, its
\* Future becomes SUCCESS(v) (unit: SUCCESS), and an await on it returns v to the
\* caller.  Stated as what a finite run can break: a task that has run has left
\* SUCCESS(v); an await on it that ended returned v; and a caller suspended in
\* await on such a Future is not left there by a crash of the process.
C3_SpawnResolves ==
  \A k \in TaskIds : Returns(k) =>
    /\ task[k].st = "done" =>
         /\ fut[FutOf(k)].state = "SUCCESS"
         /\ task[k].kind = "ret" =>
              fut[FutOf(k)].member = "result" /\ fut[FutOf(k)].val = task[k].a
    /\ Awaited(0, FutOf(k)) =>
         ev.out = IF task[k].kind = "ret" THEN [k |-> "value", v |-> task[k].a]
                  ELSE [k |-> "unit", v |-> 0]
    /\ \A w \in CellIds : (Waiting(w) /\ cell[w].fut = FutOf(k)) => proc # "crashed"

\* the part of C3 that holds
C3_Partial ==
  \A k \in TaskIds : Returns(k) =>
    /\ task[k].st = "done" =>
         /\ fut[FutOf(k)].state = "SUCCESS"
         /\ task[k].kind = "ret" =>
              fut[FutOf(k)].member = "result" /\ fut[FutOf(k)].val = task[k].a
    /\ Awaited(0, FutOf(k)) =>
         ev.out = IF task[k].kind = "ret" THEN [k |-> "value", v |-> task[k].a]
                  ELSE [k |-> "unit", v |-> 0]

\* C4: every awaiter that suspended on a Future while it was UNRESOLVED is put
\* on the ready queue exactly once by the completion, is resumed exactly once,
\* and sees the same terminal state and payload as the others.  Stated as what
\* a finite run can break: no node is queued or resumed twice; a completed
\* Future has queued each of its waiters; a resumed awaiter saw the state and
\* payload the Future has; and an awaiter that was queued is not left
\* unresumed by a crash of the process.
C4_WaitersResumed ==
  \A w \in Cells :
    /\ cell[w].enq <= 1 /\ cell[w].res <= 1
    /\ fut[cell[w].fut].state \in Terminal => cell[w].enq = 1
    /\ cell[w].res = 1 =>
         /\ cell[w].enq = 1
         /\ cell[w].seen[1] \in Terminal
         /\ cell[w].seen = Seen(St, cell[w].fut)
    /\ (cell[w].enq = 1 /\ cell[w].res = 0) => proc # "crashed"

\* the part of C4 that holds
C4_Partial ==
  \A w \in Cells :
    /\ cell[w].enq <= 1 /\ cell[w].res <= 1
    /\ fut[cell[w].fut].state \in Terminal => cell[w].enq = 1
    /\ cell[w].res = 1 =>
         /\ cell[w].enq = 1
         /\ cell[w].seen[1] \in Terminal
         /\ cell[w].seen = Seen(St, cell[w].fut)

\* ended by an exception: std::terminate, with or without the loop's diagnostic,
\* or the unexpected handler
Aborted == proc \in {"terminate", "fatal_diag", "unexpected"}
\* task k raises an error of the declared type E: it throws one, or the await it
\* makes throws the error of a failed Future
RaisesE(k) ==
  /\ Spawned(k)
  /\ \/ task[k].kind = "throwE"
     \/ task[k].kind = "await" /\ fut[task[k].a].state = "FAILURE"
ErrorOf(k) == IF task[k].kind = "throwE" THEN task[k].a ELSE fut[task[k].a].val

\* C5: a spawned task that raises an error e of the declared type leaves its
\* Future FAILURE(e); the error does not leave the resolution loop (the step
\* that ran the task does not abort the process); an await on the Future raises
\* e to the awaiter, and the program goes on.
C5_TaskFailure ==
  \A k \in TaskIds : RaisesE(k) =>
    /\ task[k].st = "done" =>
         /\ fut[FutOf(k)].state = "FAILURE"
         /\ fut[FutOf(k)].member = "error" /\ fut[FutOf(k)].val = ErrorOf(k)
    /\ (ev.op \in {"task", "resume"} /\ ev.who = k /\ task[k].st = "done") => ~Aborted
    /\ Awaited(0, FutOf(k)) =>
         /\ ev.out = [k |-> "throw", v |-> ErrorOf(k)]
         /\ proc = "up"

\* main was suspended on the Future of a throwing task, was resumed by the error,
\* and a later await of main on another Future returned a value
C5_Witness ==
  \E k \in TaskIds : \E w \in Cells :
    /\ Spawned(k) /\ task[k].kind = "throwE"
    /\ cell[w].owner = 0 /\ cell[w].fut = FutOf(k) /\ cell[w].res = 1
    /\ cell[w].seen = <<"FAILURE", task[k].a>>
    /\ ev.op = "resume" /\ ev.who = 0 /\ ev.w > w /\ ev.out.k = "value"
    /\ proc = "up"

\* C6: a spawned task that raises something that is neither of the declared type
\* nor AlreadyFulfilled leaves its Future UNEXPECTED, never SUCCESS or FAILURE;
\* the step that ran it does not abort the process; an await on an UNEXPECTED
\* Future calls the unexpected handler and returns no value and raises no E.
C6_TaskUnexpected ==
  /\ \A k \in TaskIds : (Spawned(k) /\ task[k].kind = "throwX") =>
       /\ fut[FutOf(k)].state \in {"UNRESOLVED", "UNEXPECTED"}
       /\ task[k].st = "done" => fut[FutOf(k)].state = "UNEXPECTED"
       /\ (ev.op = "task" /\ ev.who = k) => (ev.out.k = "none" /\ ~Aborted)
  /\ (ev.op \in {"await", "resume"} /\ fut[ev.f].state = "UNEXPECTED") =>
       (ev.out.k = "unexpected" /\ proc = "unexpected")
  /\ \A k \in TaskIds :
       (ev.op = "task" /\ ev.who = k /\ task[k].kind = "await"
          /\ fut[task[k].a].state = "UNEXPECTED") => proc = "unexpected"

\* main awaited the Future of a task that threw something undeclared
C6_Witness ==
  \E k \in TaskIds :
    /\ Spawned(k) /\ task[k].kind = "throwX"
    /\ Awaited(0, FutOf(k)) /\ ev.op = "resume"
    /\ ev.out.k = "unexpected" /\ proc = "unexpected"

\* position of a context in the ready queue (0: not in it)
Pos(w) == IF \E i \in 1..Len(ready) : ready[i] = w
          THEN CHOOSE i \in 1..Len(ready) : ready[i] = w ELSE 0
\* the context has been taken off the ready queue by a loop
Popped(w) == cell[w].enq >= 1 /\ Pos(w) = 0
\* A suspended on a Future before B did (nodes are numbered as they are made)
Before(A, B) == A \in Cells /\ B \in Cells /\ A < B /\ cell[A].fut = cell[B].fut

\* C7 as claimed: if A suspended on f before B, A's context is appended to the
\* ready queue, and resumed, before B's.
C7_SuspendOrder ==
  \A A, B \in CellIds : Before(A, B) =>
    /\ (Pos(A) > 0 /\ Pos(B) > 0) => Pos(A) < Pos(B)
    /\ Popped(B) => Popped(A)
    /\ cell[B].res >= 1 => cell[A].res >= 1

\* C7 as amended: waiters are queued and resumed in the reverse of the order
\* they suspended in: if A suspended on f before B, the completion appends B's
\* context to the ready queue before A's, and B is resumed before A.
C7_ReverseOrder ==
  \A A, B \in CellIds : Before(A, B) =>
    /\ cell[A].enq = cell[B].enq
    /\ (Pos(A) > 0 /\ Pos(B) > 0) => Pos(B) < Pos(A)
    /\ Popped(A) => Popped(B)
    /\ cell[A].res >= 1 => cell[B].res >= 1

\* two awaiters of one Future have both been resumed
C7_Witness ==
  \E A, B \in CellIds : Before(A, B) /\ cell[A].res = 1 /\ cell[B].res = 1

\* C8: tasks start in the order they were spawned in (tasks are numbered as they
\* are spawned): no task has started while one spawned before it has not, and
\* the task queue holds the tasks that have not started, oldest first; a task
\* spawned by a task comes behind all that are queued; nested loops keep this.
C8_FifoStart ==
  /\ \A k1, k2 \in TaskIds :
       (Spawned(k2) /\ k1 < k2 /\ task[k2].runs >= 1) => task[k1].runs >= 1
  /\ \A i, j \in 1..Len(tasks) : i < j => tasks[i] < tasks[j]

\* a task spawned by a task was started by a nested loop (a task is suspended)
C8_Witness ==
  \E k \in TaskIds : \E w \in Cells :
    /\ Spawned(k) /\ task[k].by # 0 /\ task[k].runs = 1
    /\ ev.op = "task" /\ ev.who = k
    /\ cell[w].owner # 0 /\ cell[w].res = 0 /\ cur.s > w

\* C9: a spawned task is run at most once: it is off the task queue from the
\* moment it is started (also while it is suspended in an await), and it has
\* run exactly once when its Future is completed, so when an await on it has
\* returned.  With f1 = spawn(returns 1) and f2 = spawn(awaits f1, returns
\* v + 1), f2.await() returns 2 and both tasks have run once.
C9_RunOnce ==
  /\ \A k \in TaskIds : Spawned(k) =>
       /\ task[k].runs <= 1
       /\ Cardinality({i \in 1..Len(tasks) : tasks[i] = k}) = (IF task[k].runs = 0 THEN 1 ELSE 0)
       /\ fut[FutOf(k)].state \in Terminal => task[k].runs = 1
       /\ (\E who \in 0..MaxTasks : Awaited(who, FutOf(k))) => task[k].runs = 1
  /\ (/\ Spawned(2) /\ task[1].kind = "ret" /\ task[1].a = 1
      /\ task[2].kind = "await" /\ task[2].a = FutOf(1)
      /\ Awaited(0, FutOf(2))) =>
       /\ ev.out = [k |-> "value", v |-> 2]
       /\ task[1].runs = 1 /\ task[2].runs = 1

\* the scenario: main suspended on f2 and was resumed with 2
C9_Witness ==
  /\ Spawned(2) /\ task[1].kind = "ret" /\ task[1].a = 1
  /\ task[2].kind = "await" /\ task[2].a = FutOf(1)
  /\ ev.op = "resume" /\ Awaited(0, FutOf(2)) /\ ev.out = [k |-> "value", v |-> 2]
  /\ task[1].runs = 1 /\ task[2].runs = 1

\* C10: a waitUntilReady call takes one stack and releases that stack once, when
\* it returns: the allocated stacks are as many as the calls that have not
\* returned, each call's stack is allocated until the call returns and released
\* from then on, no two calls share a stack, no stack is released twice.
C10_StackPerWait ==
  /\ Cardinality({s \in CellIds : stack[s].mem = "allocated"})
       = Cardinality({w \in Cells : cell[w].res = 0})
  /\ \A s \in CellIds : stack[s].rel <= 1
  /\ \A w \in Cells :
       /\ cell[w].res = 0 => stack[cell[w].sc] = [mem |-> "allocated", rel |-> 0]
       /\ cell[w].res >= 1 => stack[cell[w].sc] = [mem |-> "released", rel |-> 1]
  /\ \A v, w \in Cells : v # w => cell[v].sc # cell[w].sc

\* one call has returned and released its stack while a later one has not
C10_Witness ==
  \E v, w \in Cells :
    /\ v < w /\ cell[v].res = 1 /\ cell[w].res = 0
    /\ stack[cell[v].sc].mem = "released" /\ stack[cell[w].sc].mem = "allocated"

\* C11: main awaits an externally held UNRESOLVED Future f, no task was ever
\* spawned, and the progress step completes f on its k-th invocation.  While f
\* is UNRESOLVED every step of the loop is one more invocation of the progress
\* step, after which the loop is still waiting or f is completed and main's
\* context is the ready queue; then the loop jumps to it without a further
\* invocation, and the await returns f's value normally: the invocations
\* counted at the return are those counted at the completing (k-th) one.
C11_ProgressDrivesAwait ==
  [][\A f \in Manual : \A w \in CellIds :
       LET Waits   == /\ ntask = 0 /\ proc = "up" /\ cur = Loop(w)
                      /\ Waiting(w) /\ cell[w].owner = 0 /\ cell[w].fut = f
           Polling == Waits /\ fut[f].state = "UNRESOLVED"
           Woken   == Waits /\ fut[f].state # "UNRESOLVED"
           Jumped  == /\ ntask = 0 /\ proc = "up" /\ cur = Jump(w, w) /\ cell[w].fut = f
       IN /\ Polling =>
               /\ ev'.op = "callback" /\ cb' = cb + 1 /\ cur' = cur
               /\ \/ fut'[f].state = "UNRESOLVED" /\ ready' = <<>>
                  \/ /\ fut'[f] = [fut[f] EXCEPT !.state = "SUCCESS", !.member = "result", !.val = 1]
                     /\ ready' = <<w>> /\ proc' = "up"
          /\ Woken =>
               /\ ready = <<w>> /\ cb' = cb /\ cur' = Jump(w, w) /\ ready' = <<>> /\ fut' = fut
               /\ proc' = "up"
          /\ Jumped =>
               /\ cb' = cb /\ cb >= 1 /\ cur' = Main /\ proc' = "up" /\ fut' = fut
               /\ ev'.op = "resume" /\ ev'.out = [k |-> "value", v |-> fut[f].val]]_vars

\* the scenario with k = 3: main's await returned the value, three invocations made
C11_Witness ==
  /\ ntask = 0 /\ proc = "up" /\ cur = Main
  /\ ev.op = "resume" /\ ev.who = 0 /\ ev.f \in Manual
  /\ ev.out = [k |-> "value", v |-> 1]
  /\ cb = 3

\* the last step ran (part of) a task, and a completion call made in it was
\* refused as a duplicate
DuplicateInTask ==
  /\ ev.op \in {"task", "resume"} /\ ev.who # 0
  /\ \/ \E i \in 1..Len(calls) : calls[i].out = "AlreadyFulfilled"
     \/ ev.op = "task" /\ task[ev.who].kind = "throwAF"

\* C12: when a duplicate completion is raised while the loop runs a task, the
\* loop catches it and the process ends with the loop's diagnostic (a state
\* from which no task is run, no progress step made, no context resumed).
C12_DuplicateTerminates ==
  DuplicateInTask => proc = "fatal_diag"

\* C13: no coroutine stack is released while a suspended context that lives on
\* it is in a waiter list or in the ready queue; the stack a returning
\* waitUntilReady releases is the stack of the loop that resumed it; every
\* context a loop jumps to, and every running loop, is on an allocated stack.
C13_NoFreedStackInUse ==
  /\ \A w \in Cells : Waiting(w) => ~Dangling(St, w)
  /\ cur.t = "resume" => cur.s = cell[cur.w].sc
  /\ cur.t = "loop" => stack[cur.s].mem = "allocated"

\* the completion calls of the last step that released waiters
Notified == {i \in 1..Len(calls) : calls[i].atNotify # "-"}

\* C14 as claimed: in every completion the state and payload are installed
\* before notifyReady is called: when the waiters are appended to the ready
\* queue the Future is already in its terminal state, never UNRESOLVED.
C14_StateBeforeNotify ==
  \A i \in Notified : calls[i].atNotify \in Terminal

\* C14 as amended: in every completion notifyReady is called first, while the
\* Future is still UNRESOLVED, and the state is installed right after it in
\* the same call: when the call has returned the Future is terminal and its
\* waiters are queued, none of them resumed yet.
C14_NotifyBeforeState ==
  \A i \in Notified :
    /\ calls[i].out = "ok" /\ calls[i].pre = "UNRESOLVED"
    /\ calls[i].atNotify = "UNRESOLVED"
    /\ fut[calls[i].f].state \in Terminal
    /\ \A j \in 1..Len(calls[i].woke) :
         LET w == calls[i].woke[j] IN
         /\ cell[w].fut = calls[i].f /\ cell[w].enq = 1 /\ cell[w].res = 0
         /\ Pos(w) > 0

\* a setResult call released two waiters of its Future
C14_Witness ==
  /\ \E i \in Notified : calls[i].op = "setResult" /\ Len(calls[i].woke) = 2
  /\ proc = "up"

\* C15: a context that suspended in await on f is resumed only when f is
\* terminal: every context in the ready queue, and the one a loop has jumped
\* to, waits on a terminal Future; the re-dispatched await of a resumed context
\* saw a terminal state and did not suspend a second time.
C15_ResumedOnTerminal ==
  /\ \A i \in 1..Len(ready) : fut[cell[ready[i]].fut].state \in Terminal
  /\ cur.t = "resume" => fut[cell[cur.w].fut].state \in Terminal
  /\ ev.op = "resume" =>
       /\ ev.out.k \in {"value", "unit", "throw", "unexpected"}
       /\ cell[ev.w].res = 1 /\ cell[ev.w].seen[1] \in Terminal
  /\ \A w \in Cells : cell[w].res >= 1 => cell[w].seen[1] \in Terminal
  /\ \A v, w \in Cells :
       (cell[v].owner = cell[w].owner /\ cell[v].fut = cell[w].fut) => v = w

\* a task suspended on a Future was resumed by its failure and the await raised
C15_Witness ==
  /\ ev.op = "resume" /\ ev.who # 0 /\ ev.out.k = "throw"
  /\ cell[ev.w].seen[1] = "FAILURE" /\ proc = "up"

\* C16: the loop dequeues and runs a task only when the ready queue is empty
\* (and it is the front task); it invokes the progress step, once per
\* iteration, only when the ready queue and the task queue are both empty; and
\* a loop that finds the ready queue non-empty runs no task and makes no
\* invocation: the only thing it does is resume the front context.
C16_LoopPriorities ==
  [][/\ \A k \in TaskIds : task'[k].runs # task[k].runs =>
          /\ cur.t = "loop" /\ ready = <<>> /\ tasks # <<>> /\ k = Head(tasks)
          /\ task'[k].runs = task[k].runs + 1
          /\ \A j \in TaskIds \ {k} : task'[j].runs = task[j].runs
          /\ cb' = cb
     /\ cb' # cb =>
          /\ cur.t = "loop" /\ ready = <<>> /\ tasks = <<>>
          /\ cb' = cb + 1
     /\ (cur.t = "loop" /\ ready # <<>>) =>
          /\ cb' = cb /\ tasks' = tasks
          /\ \A k \in TaskIds : task'[k].runs = task[k].runs
          /\ cur' # cur => (cur' = Jump(cur.s, Head(ready)) /\ ready' = Tail(ready))]_vars

\* a loop has just been entered (by a suspension) with contexts ready and tasks queued
C16_Witness ==
  /\ proc = "up" /\ cur.t = "loop"
  /\ ev.op \in {"await", "task", "resume"} /\ ev.out.k = "suspend"
  /\ ready # <<>> /\ tasks # <<>>

\* p is q with contexts appended at the back
Extends(p, q) == Len(p) >= Len(q) /\ SubSeq(p, 1, Len(q)) = q

\* C17: a loop that finds the ready queue non-empty removes exactly one
\* context, the front one, and resumes it; the others stay queued in their
\* order.  Every other step leaves the queue as it is or appends at its back,
\* so the front context is the earliest queued one still in the queue.
C17_ReadyFifo ==
  [][/\ \/ Extends(ready', ready)
        \/ /\ cur.t = "loop" /\ ready # <<>>
           /\ ready' = Tail(ready)
           /\ cur' = Jump(cur.s, Head(ready))
           /\ ev'.op = "jump" /\ ev'.w = Head(ready)
     /\ (cur.t = "loop" /\ ready # <<>> /\ cur' # cur) =>
           (ready' = Tail(ready) /\ cur' = Jump(cur.s, Head(ready)))
     /\ cur'.t = "resume" /\ cur' # cur => (cur.t = "loop" /\ cur'.w = Head(ready))]_vars

\* a loop resumed the front context and left two others queued
C17_Witness ==
  /\ proc = "up" /\ ev.op = "jump" /\ cur.t = "resume"
  /\ Len(ready) = 2 /\ cell[cur.w].enq = 1

\* the union of Future f still holds a list head
HoldsHead(f) == fut[f].member = "cons" /\ fut[f].val # 0

\* C18 as claimed: a Future that is not UNRESOLVED has an empty waiter list:
\* the completion leaves no waiter node referenced by the Future, in all three
\* terminal states.
C18_NoWaiterRef ==
  \A f \in FutIds : fut[f].state \in Terminal => ~HoldsHead(f)

\* C18 as amended: a Future that is not UNRESOLVED has had every one of its
\* waiters moved to the ready queue, once, and none is queued again; the list
\* head is replaced by the payload in SUCCESS with a value and in FAILURE, and
\* stays stored, unused, in UNEXPECTED and unit SUCCESS.
C18_WaitersMoved ==
  \A f \in FutIds : fut[f].state \in Terminal =>
    /\ \A w \in Cells : cell[w].fut = f => cell[w].enq = 1
    /\ fut[f].state = "FAILURE" => fut[f].member = "error"
    /\ (fut[f].state = "SUCCESS" /\ ~fut[f].void) => fut[f].member = "result"
    /\ (fut[f].state = "UNEXPECTED" \/ fut[f].void) =>
         /\ fut[f].member = "cons"
         /\ fut[f].val = (IF \E w \in Cells : cell[w].fut = f
                          THEN CHOOSE w \in Cells :
                                 cell[w].fut = f /\ \A v \in Cells : cell[v].fut = f => v <= w
                          ELSE 0)

\* a unit SUCCESS Future still stores the head of a list whose waiter was
\* queued once and resumed
C18_Witness ==
  \E f \in FutIds :
    /\ fut[f].state = "SUCCESS" /\ fut[f].void /\ HoldsHead(f)
    /\ cell[fut[f].val].enq = 1 /\ cell[fut[f].val].res = 1
    /\ proc = "up"

\* C19: when the callable of a spawned task raises AlreadyFulfilled (it
\* completed some Future a second time, or throws one itself), the closure lets
\* it out: the error leaves the task, and the task's own Future is not
\* completed by it (it stays UNRESOLVED, neither FAILURE nor UNEXPECTED).
C19_RethrowsDuplicate ==
  (ev.op = "task" /\ DuplicateInTask) =>
    /\ fut[FutOf(ev.who)].state = "UNRESOLVED"
    /\ ev.out.k # "none"

\* the waiters a completion of f would release, in list order
WaitersOf(f) == IF fut[f].state = "UNRESOLVED" THEN Walk(cell, fut[f].val) ELSE <<>>

\* C20: spawn and the completion calls do not suspend or switch the running
\* context.  A spawn made by main creates one UNRESOLVED Future with no waiter
\* and appends one task at the back of the task queue; it runs no task, makes
\* no progress step, and leaves the ready queue, the nodes, the stacks and
\* every other Future as they are (any spawn, also one made by a task, adds
\* exactly one task, at the back, not yet run).  A completion made by main
\* changes only its own Future and appends that Future's waiters to the ready
\* queue; a refused one changes nothing.
C20_FrameEffects ==
  [][/\ ntask' # ntask =>
          /\ ntask' = ntask + 1
          /\ tasks' # <<>> /\ tasks'[Len(tasks')] = ntask'
          /\ Cardinality({i \in 1..Len(tasks') : tasks'[i] = ntask'}) = 1
          /\ task'[ntask'].runs = 0
          /\ fut[FutOf(ntask')] = NoFut
          /\ fut'[FutOf(ntask')].state = "UNRESOLVED"
          /\ fut'[FutOf(ntask')].member = "cons" /\ fut'[FutOf(ntask')].val = 0
     /\ (cur.t = "main" /\ ntask' # ntask) =>
          /\ cur' = cur /\ proc' = proc /\ cb' = cb
          /\ tasks' = Append(tasks, ntask')
          /\ ready' = ready /\ cell' = cell /\ stack' = stack /\ ncell' = ncell
          /\ \A g \in FutIds \ {FutOf(ntask')} : fut'[g] = fut[g]
          /\ \A k \in TaskIds \ {ntask'} : task'[k] = task[k]
     /\ (cur.t = "main" /\ calls' # <<>>) =>
          LET f == ev'.f IN
          /\ ev'.op \in SetOps /\ Len(calls') = 1 /\ calls'[1].f = f
          /\ cur' = cur /\ cb' = cb
          /\ tasks' = tasks /\ task' = task /\ ntask' = ntask
          /\ stack' = stack /\ ncell' = ncell
          /\ \A g \in FutIds \ {f} : fut'[g] = fut[g]
          /\ ready' = ready \o WaitersOf(f)
          /\ \A w \in CellIds :
               cell'[w] = IF \E i \in 1..Len(WaitersOf(f)) : WaitersOf(f)[i] = w
                          THEN [cell[w] EXCEPT !.enq = @ + 1] ELSE cell[w]]_vars

\* main completed a Future that had a waiter, with tasks queued, and runs on
C20_Witness ==
  /\ proc = "up" /\ cur = Main
  /\ ev.op \in SetOps /\ ev.who = 0 /\ ev.out.k = "ok"
  /\ ready # <<>> /\ tasks # <<>>

\* what an await on a SUCCESS or FAILURE Future hands to its caller
Stored(f) ==
  IF fut[f].state = "FAILURE" THEN [k |-> "throw", v |-> fut[f].val]
  ELSE IF fut[f].void THEN [k |-> "unit", v |-> 0]
  ELSE [k |-> "value", v |-> fut[f].val]

\* C21: an await on a Future that is SUCCESS returns the stored value, and on
\* one that is FAILURE raises the stored error, at once: made by main, it
\* changes nothing (no node, no stack, no loop entered, no task run, no
\* progress step, the Futures and both queues as they were), so a repeated
\* await yields the same outcome; made by a task, it does not suspend the task,
\* which ends in the same step with the value plus one or with the error.
C21_AwaitResolved ==
  [][/\ (cur.t = "main" /\ proc = "up" /\ ev'.op = "await"
           /\ fut[ev'.f].state \in {"SUCCESS", "FAILURE"}) =>
          /\ ev'.out = Stored(ev'.f) /\ ev'.w = 0
          /\ cur' = cur /\ proc' = "up" /\ cb' = cb
          /\ fut' = fut /\ ready' = ready /\ tasks' = tasks /\ task' = task
          /\ cell' = cell /\ stack' = stack /\ ncell' = ncell /\ ntask' = ntask
          /\ calls' = <<>>
          /\ (ev.op = "await" /\ ev.f = ev'.f) => ev'.out = ev.out
     /\ \A k \in TaskIds :
          (/\ cur.t = "loop" /\ ev'.op = "task" /\ ev'.who = k /\ task'[k].runs # task[k].runs
           /\ task[k].kind = "await" /\ fut[task[k].a].state \in {"SUCCESS", "FAILURE"}) =>
             /\ cur' = cur /\ cb' = cb /\ ncell' = ncell /\ stack' = stack
             /\ fut'[task[k].a] = fut[task[k].a]
             /\ task'[k].st = "done"
             /\ fut'[FutOf(k)].state = fut[task[k].a].state
             /\ fut'[FutOf(k)].val = (IF fut[task[k].a].state = "FAILURE" THEN fut[task[k].a].val
                                      ELSE IF fut[task[k].a].void THEN 1
                                      ELSE fut[task[k].a].val + 1)]_vars

\* main, resumed earlier from a suspension on a Future, awaited it again and
\* got the stored error at once, with tasks still queued
C21_Witness ==
  /\ proc = "up" /\ cur = Main
  /\ ev.op = "await" /\ ev.who = 0 /\ ev.out.k = "throw" /\ ev.out = Stored(ev.f)
  /\ \E w \in Cells : cell[w].owner = 0 /\ cell[w].fut = ev.f /\ cell[w].res = 1
  /\ tasks # <<>>

====
